---- MODULE Spec2Model ----
(***************************************************************************)
(* Chaikin curve editor (src/src/lib.rs): the subdivision step, the        *)
(* closedness detection and normalisation, the iteration cache and the     *)
(* event handlers of App.                                                  *)
(*                                                                         *)
(* Coordinates.  The program computes in f32.  A coordinate is modelled    *)
(* as an integer number of 1/FixedOne canvas units, FixedOne = 4^MAX_STEPS.*)
(* Every point of the model is a whole, even number of canvas units        *)
(* inside the canvas, so every value the                                   *)
(* program computes in MAX_STEPS corner cuts is a multiple of 2^-13 below  *)
(* 2^11: it has at most 24 significant bits, f32 represents it exactly and *)
(* the f32 products and sums are exact.  On such values                    *)
(* p0*0.75 + p1*0.25 is (3*p0 + p1) / 4 with an exact division.            *)
(***************************************************************************)
EXTENDS Integers, Sequences, FiniteSets, TLC

\* ---------------------------------------------------------------- constants
WIDTH == 1200
HEIGHT == 900
MAX_STEPS == 7
CLICK_RADIUS == 10
ANIM_INTERVAL == 500

\* one canvas unit in fixed point: MAX_STEPS corner cuts divide by 4 each
FixedOne == 4 ^ MAX_STEPS

\* ------------------------------------------------------------------- bounds
\* the editor accepts at most MaxPoints control points
MaxPoints == 3
\* longest input sequence handed to the pure functions
MaxLen == 4

\* ----------------------------------------------------------------- geometry
Pt(x, y) == [x |-> x, y |-> y]

\* a pointer position or point at whole canvas units
CanvasPt(ux, uy) == Pt(ux * FixedOne, uy * FixedOne)

\* clamp without the upper bound
clamp_lower_only(v, lo, hi) == IF v < lo THEN lo ELSE v

\* f32::clamp
clamp(v, lo, hi) == IF v < lo THEN lo ELSE IF v > hi THEN hi ELSE v

\* squared distance, in canvas units squared.  It is applied to control
\* points and base sequences only, which hold whole canvas units, so the
\* division is exact (and the square stays inside 32 bits).
dist2(a, b) ==
    LET dx == (a.x - b.x) \div FixedOne
        dy == (a.y - b.y) \div FixedOne
    IN  dx * dx + dy * dy

\* cut_q with the two weights exchanged
cut_q_swapped(p0, p1) ==
    Pt((p0.x + 3 * p1.x) \div 4, (p0.y + 3 * p1.y) \div 4)

\* q = p0 * 0.75 + p1 * 0.25
cut_q(p0, p1) == Pt((3 * p0.x + p1.x) \div 4, (3 * p0.y + p1.y) \div 4)

\* cut_r with the two weights exchanged
cut_r_swapped(p0, p1) ==
    Pt((3 * p0.x + p1.x) \div 4, (3 * p0.y + p1.y) \div 4)

\* r = p0 * 0.25 + p1 * 0.75
cut_r(p0, p1) == Pt((p0.x + 3 * p1.x) \div 4, (p0.y + 3 * p1.y) \div 4)

\* ------------------------------------------------------------- chaikin_step
\* closed_loop with the index of p1 saturated at n - 1 instead of wrapped
closed_loop_saturating(points, lo, hi) ==
    LET n == Len(points) IN
    [k \in 1 .. 2 * (hi - lo) |->
        LET i == lo + (k - 1) \div 2
            p0 == points[i + 1]
            p1 == points[IF i + 1 < n THEN i + 2 ELSE n]
        IN  IF k % 2 = 1
            THEN Pt((3 * p0.x + p1.x) \div 4, (3 * p0.y + p1.y) \div 4)
            ELSE Pt((p0.x + 3 * p1.x) \div 4, (p0.y + 3 * p1.y) \div 4)]

\* What the iterations lo .. hi-1 of the loop `for i in 0..n` of the closed
\* variant push on `out`, in order: iteration i pushes q then r of the pair
\* points[i], points[(i + 1) % n].  i counts from 0 as in the source,
\* sequences are indexed from 1.  The range is halved rather than walked
\* so that the evaluation depth stays logarithmic in n.
RECURSIVE closed_loop(_, _, _)
closed_loop(points, lo, hi) ==
    LET n == Len(points) IN
    IF hi <= lo THEN <<>>
    ELSE IF hi = lo + 1
    THEN LET p0 == points[lo + 1]
             p1 == points[((lo + 1) % n) + 1]
         IN  <<cut_q(p0, p1), cut_r(p0, p1)>>
    ELSE LET mid == (lo + hi) \div 2
         IN  closed_loop(points, lo, mid) \o closed_loop(points, mid, hi)

\* the same for the loop `for i in 0..(n - 1)` of the open variant:
\* iteration i pushes q then r of the pair points[i], points[i + 1]
RECURSIVE open_loop(_, _, _)
open_loop(points, lo, hi) ==
    IF hi <= lo THEN <<>>
    ELSE IF hi = lo + 1
    THEN LET p0 == points[lo + 1]
             p1 == points[lo + 2]
         IN  <<cut_q(p0, p1), cut_r(p0, p1)>>
    ELSE LET mid == (lo + hi) \div 2
         IN  open_loop(points, lo, mid) \o open_loop(points, mid, hi)

\* chaikin_step without the push of the last endpoint
chaikin_step_no_last(points, closed) ==
    LET n == Len(points) IN
    IF n < 2 THEN points
    ELSE IF closed THEN closed_loop(points, 0, n)
    ELSE IF n = 2 THEN points
    ELSE <<points[1]>> \o open_loop(points, 0, n - 1)

\* chaikin_step with the two-point guard ahead of the closed branch
chaikin_step_guard_first(points, closed) ==
    LET n == Len(points) IN
    IF n < 2 THEN points
    ELSE IF n = 2 THEN points
    ELSE IF closed THEN closed_loop(points, 0, n)
    ELSE <<points[1]>> \o open_loop(points, 0, n - 1) \o <<points[n]>>

chaikin_step(points, closed) ==
    LET n == Len(points) IN
    IF n < 2 THEN points
    ELSE IF closed THEN closed_loop(points, 0, n)
    ELSE IF n = 2 THEN points
    ELSE <<points[1]>> \o open_loop(points, 0, n - 1) \o <<points[n]>>

\* ---------------------------------------------------- precompute_iterations
\* detect_closed with < for <=
detect_closed_strict(base, closed_hint) ==
    IF Len(base) >= 3
       /\ dist2(base[1], base[Len(base)]) < CLICK_RADIUS * CLICK_RADIUS
    THEN TRUE
    ELSE closed_hint

\* detect_closed with the length test at two points instead of three
detect_closed_two(base, closed_hint) ==
    IF Len(base) >= 2
       /\ dist2(base[1], base[Len(base)]) <= CLICK_RADIUS * CLICK_RADIUS
    THEN TRUE
    ELSE closed_hint

\* the closed-ness decision: explicit hint or first/last proximity
detect_closed(base, closed_hint) ==
    IF Len(base) >= 3
       /\ dist2(base[1], base[Len(base)]) <= CLICK_RADIUS * CLICK_RADIUS
    THEN TRUE
    ELSE closed_hint

\* the base the iterations start from: a closed polygon loses a duplicate
\* last point
normalize_base(base, closed) ==
    IF closed /\ Len(base) >= 2
    THEN IF dist2(base[1], base[Len(base)]) <= CLICK_RADIUS * CLICK_RADIUS
         THEN SubSeq(base, 1, Len(base) - 1)
         ELSE base
    ELSE base

\* the loop `for _ in 0..max_steps`
RECURSIVE iterate(_, _, _, _)
iterate(cur, closed, steps_left, iters) ==
    IF steps_left = 0 THEN iters
    ELSE IF Len(cur) < 2
         THEN iterate(cur, closed, steps_left - 1, Append(iters, cur))
         ELSE LET nxt == chaikin_step(cur, closed)
              IN  iterate(nxt, closed, steps_left - 1, Append(iters, nxt))

precompute_iterations(base, max_steps, closed_hint) ==
    LET closed == detect_closed(base, closed_hint)
        cur == normalize_base(base, closed)
    IN  iterate(cur, closed, max_steps, <<cur>>)

\* ---------------------------------------------------------------- the state
VARIABLES
    control_points,     \* App.control_points
    cached_iters,       \* App.cached_iters
    dragging,           \* App.dragging: <<>> is None, <<i>> is Some(i)
    last_mouse_pos,     \* App.last_mouse_pos (not clamped)
    anim_running,       \* App.anim_running
    anim_step,          \* App.anim_step
    anim_elapsed,       \* App.last_anim_instant.elapsed(), in ms, saturated
                        \* at ANIM_INTERVAL
    panicked,           \* an index out of range aborted the process
    drag_dropped,       \* the last event was an on_mouse_move that found the
                        \* drag index out of range and ended the drag
    drag_stale,         \* history: dragging holds an index that a press
                        \* captured before the last clear
    fn_pc,              \* pure-function harness: position
    fn_points,          \* pure-function harness: the input sequence
    fn_hint,            \* pure-function harness: the closed flag / hint
    fn_step,            \* chaikin_step(fn_points, fn_hint)
    fn_step_rot,        \* chaikin_step(fn_points rotated by one, fn_hint)
    fn_closed,          \* the local `closed` of precompute_iterations
    fn_iters,           \* precompute_iterations(fn_points, MAX_STEPS, fn_hint)
    fn_renorm           \* the level 0 of precompute_iterations run again on
                        \* fn_iters[1], without a hint

app_vars == <<control_points, cached_iters, dragging, last_mouse_pos,
              anim_running, anim_step, anim_elapsed, panicked, drag_dropped,
              drag_stale>>
fn_vars == <<fn_pc, fn_points, fn_hint, fn_step, fn_step_rot, fn_closed,
             fn_iters, fn_renorm>>
vars == <<control_points, cached_iters, dragging, last_mouse_pos,
          anim_running, anim_step, anim_elapsed, panicked, drag_dropped,
          drag_stale,
          fn_pc, fn_points, fn_hint, fn_step, fn_step_rot, fn_closed,
          fn_iters, fn_renorm>>

None == <<>>
Some(i) == <<i>>

\* The pointer positions the window system reports, in canvas units:
\* one beyond the top left corner, which clamps to the origin the pointer
\* starts at; one beyond the bottom right corner, which clamps to
\* (WIDTH, HEIGHT); (10,10), which with these two is pairwise farther
\* apart than CLICK_RADIUS; and (10,0), exactly CLICK_RADIUS from the
\* origin and from (10,10).
MousePositions ==
    { CanvasPt(-CLICK_RADIUS, -CLICK_RADIUS), CanvasPt(CLICK_RADIUS, 0),
      CanvasPt(WIDTH + CLICK_RADIUS, HEIGHT + CLICK_RADIUS),
      CanvasPt(CLICK_RADIUS, CLICK_RADIUS) }

Buttons == {"Left", "Right"}
\* Escape ends the process, and with it the behaviour: it is no step
Keys == {"Return", "C", "Other"}

\* App::new
AppInit ==
    /\ control_points = <<>>
    /\ cached_iters = precompute_iterations(<<>>, MAX_STEPS, FALSE)
    /\ dragging = None
    /\ last_mouse_pos = CanvasPt(0, 0)
    /\ anim_running = FALSE
    /\ anim_step = 0
    /\ anim_elapsed = 0
    /\ panicked = FALSE
    /\ drag_dropped = FALSE
    /\ drag_stale = FALSE

FnIdle ==
    /\ fn_pc = "idle"
    /\ fn_points = <<>>
    /\ fn_hint = FALSE
    /\ fn_step = <<>>
    /\ fn_step_rot = <<>>
    /\ fn_closed = FALSE
    /\ fn_iters = <<>>
    /\ fn_renorm = <<>>

Init == AppInit /\ FnIdle

\* --------------------------------------------------------------- App helpers
mouse_pos_to_pt(pos) ==
    Pt(clamp(pos.x, 0, WIDTH * FixedOne), clamp(pos.y, 0, HEIGHT * FixedOne))

\* find_point_index_near returning the nearest point within the radius
find_point_index_nearest(points, pt, radius) ==
    LET hits == { i \in 1 .. Len(points) :
                    dist2(points[i], pt) <= radius * radius }
    IN  IF hits = {} THEN None
        ELSE Some((CHOOSE i \in hits : \A j \in hits :
                      \/ dist2(points[i], pt) < dist2(points[j], pt)
                      \/ dist2(points[i], pt) = dist2(points[j], pt) /\ i <= j)
                  - 1)

\* find_point_index_near with the radius itself out of reach
find_point_index_near_strict(points, pt, radius) ==
    LET hits == { i \in 1 .. Len(points) :
                    dist2(points[i], pt) < radius * radius }
    IN  IF hits = {} THEN None
        ELSE Some((CHOOSE i \in hits : \A j \in hits : i <= j) - 1)

\* the linear scan: the first index (from 0) within the radius, or None
find_point_index_near(points, pt, radius) ==
    LET hits == { i \in 1 .. Len(points) :
                    dist2(points[i], pt) <= radius * radius }
    IN  IF hits = {} THEN None
        ELSE Some((CHOOSE i \in hits : \A j \in hits : i <= j) - 1)

RECURSIVE SeqsUpTo(_, _)
\* the sequences over S of length at most n
SeqsUpTo(S, n) ==
    IF n = 0 THEN {<<>>}
    ELSE LET shorter == SeqsUpTo(S, n - 1)
         IN  shorter \cup { Append(q, e) : q \in shorter, e \in S }

\* the control points the pointer positions of the model can produce
ClampedPositions == { mouse_pos_to_pt(pos) : pos \in MousePositions }

\* precompute_iterations(points, MAX_STEPS, false) of every control-point
\* sequence the editor of the model can hold.  TLC evaluates a constant
\* once, so a handler that rebuilds the cache of a sequence met before
\* does not run the subdivision again.
cache_table ==
    [points \in SeqsUpTo(ClampedPositions, MaxPoints) |->
        precompute_iterations(points, MAX_STEPS, FALSE)]

\* recompute_cache on the control points `points`, with anim_step `step`
recompute_cache(points, step) ==
    LET iters == IF points \in DOMAIN cache_table
                 THEN cache_table[points]
                 ELSE precompute_iterations(points, MAX_STEPS, FALSE)
    IN  [cached_iters |-> iters,
         anim_step |-> IF step >= Len(iters) THEN 0 ELSE step]

\* ----------------------------------------------------------------- handlers
\* time passes between two events
Tick ==
    /\ ~panicked
    /\ anim_elapsed < ANIM_INTERVAL
    /\ anim_elapsed' = ANIM_INTERVAL
    /\ UNCHANGED <<control_points, cached_iters, dragging, last_mouse_pos,
                   anim_running, anim_step, panicked, drag_dropped,
                   drag_stale>>
    /\ UNCHANGED fn_vars

\* draw_step without the wrap to 0
draw_step_no_wrap(running, npoints, elapsed, step) ==
    IF running /\ npoints >= 3
    THEN IF elapsed >= ANIM_INTERVAL THEN step + 1 ELSE step
    ELSE 0

\* draw_step without the test for three control points
draw_step_any_count(running, npoints, elapsed, step) ==
    IF running
    THEN IF elapsed >= ANIM_INTERVAL
         THEN IF step + 1 > MAX_STEPS THEN 0 ELSE step + 1
         ELSE step
    ELSE 0

\* draw_step advancing by two levels
draw_step_skip(running, npoints, elapsed, step) ==
    IF running /\ npoints >= 3
    THEN IF elapsed >= ANIM_INTERVAL
         THEN IF step + 2 > MAX_STEPS THEN 0 ELSE step + 2
         ELSE step
    ELSE 0

\* anim_step after the animation timing block of on_draw
draw_step(running, npoints, elapsed, step) ==
    IF running /\ npoints >= 3
    THEN IF elapsed >= ANIM_INTERVAL
         THEN IF step + 1 > MAX_STEPS THEN 0 ELSE step + 1
         ELSE step
    ELSE 0

on_draw ==
    /\ ~panicked
    /\ anim_step' = draw_step(anim_running, Len(control_points),
                              anim_elapsed, anim_step)
    /\ anim_elapsed' =
          IF anim_running /\ Len(control_points) >= 3
             /\ anim_elapsed >= ANIM_INTERVAL
          THEN 0 ELSE anim_elapsed
    \* &self.cached_iters[self.anim_step]
    /\ panicked' = (Len(control_points) >= 3
                    /\ anim_step' >= Len(cached_iters))
    /\ drag_dropped' = FALSE
    /\ UNCHANGED <<control_points, cached_iters, dragging, last_mouse_pos,
                   anim_running, drag_stale>>
    /\ UNCHANGED fn_vars

\* ------------------------------------------------ what on_draw hands over
\* The drawing part of on_draw writes nothing to App.  What it hands to the
\* graphics context is a function of the state on_draw is called in and
\* of the anim_step its timing block leaves.

\* the dataset to draw, step being the anim_step after the timing block
to_draw(step) ==
    IF Len(control_points) >= 3
    THEN cached_iters[step + 1]
    ELSE control_points

closed_detected ==
    IF Len(control_points) >= 3
    THEN dist2(control_points[1], control_points[Len(control_points)])
            <= CLICK_RADIUS * CLICK_RADIUS
    ELSE FALSE

\* draw_line without the test of anim_running
draw_line_ungated(a, b) == <<a, b>>

\* App::draw_line: the segment one call hands to graphics.draw_line, or
\* <<>> when the call draws nothing
draw_line(a, b) == IF anim_running THEN <<a, b>> ELSE <<>>

is_drawn(segment) == segment # <<>>

\* the loop `for i in 0..(path.len() - 1)` of draw_line calls, and the call
\* for the segment last -> first when closing: the segments drawn, in order
draw_path(path, closing) ==
    LET calls == [i \in 1 .. Len(path) - 1 |->
                     draw_line(path[i], path[i + 1])]
        close == IF closing
                 THEN <<draw_line(path[Len(path)], path[1])>>
                 ELSE <<>>
    IN  SelectSeq(calls \o close, is_drawn)

\* the faint control polygon
context_lines ==
    IF Len(control_points) >= 3
    THEN draw_path(control_points, closed_detected)
    ELSE <<>>

\* the active polyline (curve)
active_lines(step) ==
    IF Len(to_draw(step)) >= 2
    THEN draw_path(to_draw(step), closed_detected)
    ELSE <<>>

\* on_mouse_move without the cache rebuild after the write
on_mouse_move_stale_cache(position) ==
    /\ ~panicked
    /\ last_mouse_pos' = position
    /\ IF dragging # None
       THEN LET idx == dragging[1] IN
            IF idx < Len(control_points)
            THEN /\ control_points' = [control_points EXCEPT
                                         ![idx + 1] = mouse_pos_to_pt(position)]
                 /\ drag_dropped' = FALSE
                 /\ UNCHANGED <<cached_iters, anim_step, dragging>>
            ELSE /\ dragging' = None
                 /\ drag_dropped' = TRUE
                 /\ UNCHANGED <<control_points, cached_iters, anim_step>>
       ELSE /\ drag_dropped' = FALSE
            /\ UNCHANGED <<control_points, cached_iters, anim_step, dragging>>
    /\ drag_stale' = (drag_stale /\ dragging' # None)
    /\ UNCHANGED <<anim_running, anim_elapsed, panicked>>
    /\ UNCHANGED fn_vars

\* on_mouse_move that leaves an out-of-range drag index in place
on_mouse_move_keep_drag(position) ==
    /\ ~panicked
    /\ last_mouse_pos' = position
    /\ IF dragging # None
       THEN LET idx == dragging[1] IN
            IF idx < Len(control_points)
            THEN LET moved == [control_points EXCEPT
                                 ![idx + 1] = mouse_pos_to_pt(position)]
                     rc == recompute_cache(moved, anim_step)
                 IN  /\ control_points' = moved
                     /\ cached_iters' = rc.cached_iters
                     /\ anim_step' = rc.anim_step
                     /\ drag_dropped' = FALSE
                     /\ UNCHANGED dragging
            ELSE /\ drag_dropped' = TRUE
                 /\ UNCHANGED <<control_points, cached_iters, anim_step,
                                dragging>>
       ELSE /\ drag_dropped' = FALSE
            /\ UNCHANGED <<control_points, cached_iters, anim_step, dragging>>
    /\ drag_stale' = (drag_stale /\ dragging' # None)
    /\ UNCHANGED <<anim_running, anim_elapsed, panicked>>
    /\ UNCHANGED fn_vars

on_mouse_move(position) ==
    /\ ~panicked
    /\ last_mouse_pos' = position
    /\ IF dragging # None
       THEN LET idx == dragging[1] IN
            IF idx < Len(control_points)
            THEN LET moved == [control_points EXCEPT
                                 ![idx + 1] = mouse_pos_to_pt(position)]
                     rc == recompute_cache(moved, anim_step)
                 IN  /\ control_points' = moved
                     /\ cached_iters' = rc.cached_iters
                     /\ anim_step' = rc.anim_step
                     /\ drag_dropped' = FALSE
                     /\ UNCHANGED dragging
            ELSE /\ dragging' = None
                 /\ drag_dropped' = TRUE
                 /\ UNCHANGED <<control_points, cached_iters, anim_step>>
       ELSE /\ drag_dropped' = FALSE
            /\ UNCHANGED <<control_points, cached_iters, anim_step, dragging>>
    /\ drag_stale' = (drag_stale /\ dragging' # None)
    /\ UNCHANGED <<anim_running, anim_elapsed, panicked>>
    /\ UNCHANGED fn_vars

\* on_mouse_button_down with the hit test on every button and the append
\* on the left button only
on_mouse_button_down_any_drag(button) ==
    /\ ~panicked
    /\ LET pt == mouse_pos_to_pt(last_mouse_pos)
           hit == find_point_index_near(control_points, pt, CLICK_RADIUS)
       IN  IF hit # None
           THEN /\ dragging' = hit
                /\ drag_stale' = FALSE
                /\ UNCHANGED <<control_points, cached_iters, anim_step>>
           ELSE IF button = "Left"
           THEN /\ Len(control_points) < MaxPoints
                /\ LET pushed == Append(control_points, pt)
                       rc == recompute_cache(pushed, anim_step)
                   IN  /\ control_points' = pushed
                       /\ cached_iters' = rc.cached_iters
                       /\ anim_step' = rc.anim_step
                /\ UNCHANGED <<dragging, drag_stale>>
           ELSE UNCHANGED <<control_points, cached_iters, anim_step, dragging,
                            drag_stale>>
    /\ drag_dropped' = FALSE
    /\ UNCHANGED <<last_mouse_pos, anim_running, anim_elapsed, panicked>>
    /\ UNCHANGED fn_vars

on_mouse_button_down(button) ==
    /\ ~panicked
    /\ IF button = "Left"
       THEN LET pt == mouse_pos_to_pt(last_mouse_pos)
                hit == find_point_index_near(control_points, pt, CLICK_RADIUS)
            IN  IF hit # None
                THEN /\ dragging' = hit
                     /\ drag_stale' = FALSE
                     /\ UNCHANGED <<control_points, cached_iters, anim_step>>
                ELSE \* the model stops adding points at MaxPoints
                     /\ Len(control_points) < MaxPoints
                     /\ LET pushed == Append(control_points, pt)
                            rc == recompute_cache(pushed, anim_step)
                        IN  /\ control_points' = pushed
                            /\ cached_iters' = rc.cached_iters
                            /\ anim_step' = rc.anim_step
                     /\ UNCHANGED <<dragging, drag_stale>>
       ELSE UNCHANGED <<control_points, cached_iters, anim_step, dragging,
                        drag_stale>>
    /\ drag_dropped' = FALSE
    /\ UNCHANGED <<last_mouse_pos, anim_running, anim_elapsed, panicked>>
    /\ UNCHANGED fn_vars

on_mouse_button_up(button) ==
    /\ ~panicked
    /\ IF button = "Left" THEN dragging' = None ELSE UNCHANGED dragging
    /\ drag_stale' = (drag_stale /\ dragging' # None)
    /\ drag_dropped' = FALSE
    /\ UNCHANGED <<control_points, cached_iters, last_mouse_pos,
                   anim_running, anim_step, anim_elapsed, panicked>>
    /\ UNCHANGED fn_vars

\* key_return without the test for an empty control_points
key_return_unguarded ==
    /\ anim_running' = ~anim_running
    /\ IF anim_running'
       THEN anim_step' = 0 /\ anim_elapsed' = 0
       ELSE UNCHANGED <<anim_step, anim_elapsed>>

\* key_return with the reset of anim_step and of the timer in both
\* directions
key_return_always_reset ==
    IF Len(control_points) = 0
    THEN UNCHANGED <<anim_running, anim_step, anim_elapsed>>
    ELSE /\ anim_running' = ~anim_running
         /\ anim_step' = 0
         /\ anim_elapsed' = 0

\* the Return / NumpadEnter arm of on_key_down
key_return ==
    IF Len(control_points) = 0
    THEN UNCHANGED <<anim_running, anim_step, anim_elapsed>>
    ELSE /\ anim_running' = ~anim_running
         /\ IF anim_running'
            THEN anim_step' = 0 /\ anim_elapsed' = 0
            ELSE UNCHANGED <<anim_step, anim_elapsed>>

\* key_clear without the reset of anim_step
key_clear_keep_step ==
    LET rc == recompute_cache(<<>>, anim_step) IN
    /\ control_points' = <<>>
    /\ cached_iters' = rc.cached_iters
    /\ anim_running' = FALSE
    /\ anim_step' = rc.anim_step

\* key_clear without the stop of the animation
key_clear_keep_running ==
    LET rc == recompute_cache(<<>>, anim_step) IN
    /\ control_points' = <<>>
    /\ cached_iters' = rc.cached_iters
    /\ anim_running' = anim_running
    /\ anim_step' = 0

\* the C arm of on_key_down
key_clear ==
    LET rc == recompute_cache(<<>>, anim_step) IN
    /\ control_points' = <<>>
    /\ cached_iters' = rc.cached_iters
    /\ anim_running' = FALSE
    /\ anim_step' = 0

on_key_down(key) ==
    /\ ~panicked
    /\ CASE key = "Return" ->
              /\ key_return
              /\ UNCHANGED <<control_points, cached_iters>>
         [] key = "C" ->
              /\ key_clear
              /\ UNCHANGED anim_elapsed
         [] OTHER ->
              UNCHANGED <<control_points, cached_iters, anim_running,
                          anim_step, anim_elapsed>>
    /\ drag_dropped' = FALSE
    /\ drag_stale' = IF key = "C" THEN dragging # None ELSE drag_stale
    /\ UNCHANGED <<dragging, last_mouse_pos, panicked>>
    /\ UNCHANGED fn_vars

Next ==
    \/ Tick
    \/ on_draw
    \/ \E position \in MousePositions : on_mouse_move(position)
    \/ \E button \in Buttons : on_mouse_button_down(button)
    \/ \E button \in Buttons : on_mouse_button_up(button)
    \/ \E key \in Keys : on_key_down(key)

Spec == Init /\ [][Next]_vars

\* ------------------------------------------------------ clicks without drags
\* The editor with every event but a pointer move while a drag is in
\* progress: the pointer moves only while dragging is None.
ClickNext ==
    \/ Tick
    \/ on_draw
    \/ \E position \in MousePositions :
          dragging = None /\ on_mouse_move(position)
    \/ \E button \in Buttons : on_mouse_button_down(button)
    \/ \E button \in Buttons : on_mouse_button_up(button)
    \/ \E key \in Keys : on_key_down(key)

ClickSpec == Init /\ [][ClickNext]_vars

\* ------------------------------------------------------ playback left alone
\* The animation just started by Return on three or more control points,
\* and from then on no key, button or pointer event: time passes and the
\* window redraws.  on_draw ends with helper.request_redraw(), so the event
\* loop calls it again and again, and the clock behind
\* last_anim_instant.elapsed() goes on: both steps are weakly fair.
PlayInit ==
    /\ control_points \in
          { points \in SeqsUpTo(ClampedPositions, MaxPoints) :
              Len(points) >= 3 }
    /\ cached_iters = recompute_cache(control_points, 0).cached_iters
    /\ dragging = None
    /\ last_mouse_pos \in MousePositions
    /\ anim_running = TRUE
    /\ anim_step = 0
    /\ anim_elapsed = 0
    /\ panicked = FALSE
    /\ drag_dropped = FALSE
    /\ drag_stale = FALSE
    /\ FnIdle

PlayNext ==
    \/ Tick
    \/ on_draw

PlaySpec ==
    /\ PlayInit
    /\ [][PlayNext]_vars
    /\ WF_vars(Tick)
    /\ WF_vars(on_draw)

\* ------------------------------------------------- the pure functions alone
\* input points of the pure functions: the points the editor can hold
FnPoints == ClampedPositions

\* the input rotated left by one position
rotate_one(points) ==
    IF Len(points) < 2 THEN points
    ELSE SubSeq(points, 2, Len(points)) \o <<points[1]>>

FnInit ==
    /\ AppInit
    /\ fn_pc = "input"
    /\ fn_points \in SeqsUpTo(FnPoints, MaxLen)
    /\ fn_hint \in BOOLEAN
    /\ fn_step = <<>>
    /\ fn_step_rot = <<>>
    /\ fn_closed = FALSE
    /\ fn_iters = <<>>
    /\ fn_renorm = <<>>

FnChaikinStep ==
    /\ fn_pc = "input"
    /\ fn_step' = chaikin_step(fn_points, fn_hint)
    /\ fn_pc' = "stepped"
    /\ UNCHANGED <<fn_points, fn_hint, fn_step_rot, fn_closed, fn_iters,
                    fn_renorm>>
    /\ UNCHANGED app_vars

FnChaikinStepRotated ==
    /\ fn_pc = "stepped"
    /\ fn_step_rot' = chaikin_step(rotate_one(fn_points), fn_hint)
    /\ fn_pc' = "rotated"
    /\ UNCHANGED <<fn_points, fn_hint, fn_step, fn_closed, fn_iters,
                    fn_renorm>>
    /\ UNCHANGED app_vars

FnPrecompute ==
    /\ fn_pc = "rotated"
    /\ fn_iters' = precompute_iterations(fn_points, MAX_STEPS, fn_hint)
    /\ fn_closed' = detect_closed(fn_points, fn_hint)
    /\ fn_pc' = "built"
    /\ UNCHANGED <<fn_points, fn_hint, fn_step, fn_step_rot, fn_renorm>>
    /\ UNCHANGED app_vars

\* precompute_iterations on its own level 0, with closed_hint = false: the
\* detection and the normalisation of the second run
FnRenormalize ==
    /\ fn_pc = "built"
    /\ fn_renorm' = normalize_base(fn_iters[1], detect_closed(fn_iters[1], FALSE))
    /\ fn_pc' = "renormalized"
    /\ UNCHANGED <<fn_points, fn_hint, fn_step, fn_step_rot, fn_closed,
                   fn_iters>>
    /\ UNCHANGED app_vars

FnNext ==
    \/ FnChaikinStep
    \/ FnChaikinStepRotated
    \/ FnPrecompute
    \/ FnRenormalize

FnSpec == FnInit /\ [][FnNext]_vars

\* =================================================================== claims
ToSet(q) == { q[i] : i \in 1 .. Len(q) }

\* the first and last point of a sequence are within CLICK_RADIUS
near_ends(base) ==
    dist2(base[1], base[Len(base)]) <= CLICK_RADIUS * CLICK_RADIUS

\* ----------------------------------------------------------------------- C1
\* iters is the cache of points built from scratch: MAX_STEPS + 1 levels,
\* level 0 the normalized base and every next level one chaikin_step of
\* the level before, closed decided on points with hint = false
is_cache_of(iters, points) ==
    LET closed == detect_closed(points, FALSE) IN
    /\ Len(iters) = MAX_STEPS + 1
    /\ iters[1] = normalize_base(points, closed)
    /\ \A k \in 1 .. MAX_STEPS : iters[k + 1] = chaikin_step(iters[k], closed)

\* the control-point sequences whose cache_table entry is built from
\* scratch in that sense (a constant: TLC evaluates it once)
coherent_entries ==
    { points \in DOMAIN cache_table : is_cache_of(cache_table[points], points) }

\* C1: in every reachable state of the editor the stored cache has
\* MAX_STEPS + 1 = 8 levels and is precompute_iterations(control points,
\* MAX_STEPS, false) built from scratch: level 0 the normalized base, level
\* k+1 the chaikin_step of level k.  The cache is never stale.
C1_CacheCoherence ==
    /\ Len(cached_iters) = MAX_STEPS + 1
    /\ control_points \in coherent_entries
    /\ cached_iters = cache_table[control_points]

\* a closed three-point cache after a drag, while the animation runs
C1_Witness ==
    /\ Len(control_points) = 3
    /\ near_ends(control_points)
    /\ dragging # None
    /\ anim_running
    /\ Len(cached_iters[1]) = 2
    /\ Len(cached_iters[MAX_STEPS + 1]) = 2 * 2 ^ MAX_STEPS

\* ----------------------------------------------------------------------- C2
\* the point one quarter of the way from p0 to p1
ref_Q(p0, p1) ==
    Pt(p0.x + (p1.x - p0.x) \div 4, p0.y + (p1.y - p0.y) \div 4)

\* the point three quarters of the way from p0 to p1
ref_R(p0, p1) ==
    Pt(p0.x + (3 * (p1.x - p0.x)) \div 4, p0.y + (3 * (p1.y - p0.y)) \div 4)

RECURSIVE ref_pairs(_)
\* Q then R of every consecutive pair of q, in order
ref_pairs(q) ==
    IF Len(q) < 2 THEN <<>>
    ELSE <<ref_Q(q[1], q[2]), ref_R(q[1], q[2])>> \o ref_pairs(Tail(q))

ref_step(points, closed) ==
    LET n == Len(points) IN
    IF n < 2 THEN points
    ELSE IF closed THEN ref_pairs(points \o <<points[1]>>)
    ELSE IF n = 2 THEN points
    ELSE <<points[1]>> \o ref_pairs(points) \o <<points[n]>>

ref_len(n, closed) ==
    IF n < 2 THEN n
    ELSE IF closed THEN 2 * n
    ELSE IF n = 2 THEN 2
    ELSE 2 * (n - 1) + 2

\* C2: chaikin_step(points, closed) is the reference operator on every
\* input: unchanged below two points and for two open points; first point,
\* Q and R of every consecutive pair, last point for an open n > 2 (length
\* 2(n-1)+2); Q and R of every cyclic pair for a closed n >= 2 (length 2n).
C2_ChaikinStepIsReference ==
    fn_pc # "input" =>
        /\ fn_step = ref_step(fn_points, fn_hint)
        /\ Len(fn_step) = ref_len(Len(fn_points), fn_hint)

\* an open step on four points and a closed step on three have been taken
C2_Witness ==
    /\ fn_pc = "stepped"
    /\ \/ ~fn_hint /\ Len(fn_points) = 4 /\ Len(fn_step) = 8
       \/ fn_hint /\ Len(fn_points) = 3 /\ Len(fn_step) = 6
    /\ fn_step # fn_points

\* ----------------------------------------------------------------------- C3
\* C3: closed is true iff the hint is true or the base has at least three
\* points and its ends are within CLICK_RADIUS; level 0 is the base without
\* its last point iff closed and the base has at least two points and its
\* ends are within CLICK_RADIUS, and the base otherwise.
C3_DetectAndNormalize ==
    fn_pc = "built" =>
        LET drop == fn_closed /\ Len(fn_points) >= 2 /\ near_ends(fn_points)
        IN  /\ fn_closed <=>
                (fn_hint \/ (Len(fn_points) >= 3 /\ near_ends(fn_points)))
            /\ drop => fn_iters[1] = SubSeq(fn_points, 1, Len(fn_points) - 1)
            /\ ~drop => fn_iters[1] = fn_points
            /\ fn_iters[2] = chaikin_step(fn_iters[1], fn_closed)

\* a four-point triangle whose last point is exactly CLICK_RADIUS from the
\* first, no hint: closed, level 0 has three points
C3_Witness ==
    /\ fn_pc = "built"
    /\ ~fn_hint
    /\ Len(fn_points) = 4
    /\ dist2(fn_points[1], fn_points[4]) = CLICK_RADIUS * CLICK_RADIUS
    /\ fn_closed
    /\ Len(fn_iters[1]) = 3
    /\ Len(fn_iters[2]) = 6

\* ----------------------------------------------------------------------- C4
\* C4: anim_step is in 0 .. MAX_STEPS and a valid index of the stored
\* cache in every reachable state, and the read cached_iters[anim_step] of
\* on_draw never went out of range.
C4_PlaybackIndexValid ==
    /\ anim_step \in 0 .. MAX_STEPS
    /\ anim_step < Len(cached_iters)
    /\ ~panicked

\* the animation shows the last level
C4_Witness ==
    /\ anim_running
    /\ Len(control_points) >= 3
    /\ anim_step = MAX_STEPS
    /\ anim_elapsed = ANIM_INTERVAL

\* ----------------------------------------------------------------------- C5
\* C5: in every reachable state with fewer than three control points
\* anim_step is 0, running or not.
C5_FewPointsLevelZero ==
    Len(control_points) < 3 => anim_step = 0

\* running, the interval elapsed, one or two points
C5_Witness ==
    /\ anim_running
    /\ anim_elapsed = ANIM_INTERVAL
    /\ Len(control_points) \in {1, 2}
    /\ anim_step = 0

\* ----------------------------------------------------------------------- C6
\* C6: a drag was begun and a clear emptied the control points before the
\* next pointer move: that move changes no control point (the sequence
\* stays empty), does not fail and leaves no drag in progress.
C6_DragSafety ==
    [][\A position \in MousePositions :
         (dragging # None /\ control_points = <<>> /\ on_mouse_move(position))
         => (control_points' = <<>> /\ dragging' = None /\ ~panicked')]_vars

\* the pointer move after the clear has ended the drag
C6_Witness ==
    /\ drag_dropped
    /\ control_points = <<>>
    /\ dragging = None
    /\ ~panicked

\* ----------------------------------------------------------------------- C7
\* C7: in every reachable state the drag state is None or an index below
\* the number of control points (a clear clears it).
C7_DragStateValid ==
    dragging = None \/ dragging[1] < Len(control_points)

\* ----------------------------------------------------------------------- C8
\* C8: for a base of at least three points treated as open, every level
\* 0 .. MAX_STEPS of the cache starts with base[0] and ends with base[last].
C8_OpenEndpointsPreserved ==
    (fn_pc = "built" /\ Len(fn_points) >= 3 /\ ~fn_closed) =>
        \A k \in 1 .. MAX_STEPS + 1 :
            /\ fn_iters[k][1] = fn_points[1]
            /\ fn_iters[k][Len(fn_iters[k])] = fn_points[Len(fn_points)]

\* an open base of three points with distinct ends, subdivided seven times
C8_Witness ==
    /\ fn_pc = "built"
    /\ Len(fn_points) = 3
    /\ ~fn_hint
    /\ ~fn_closed
    /\ fn_points[1] # fn_points[3]
    /\ Len(fn_iters[MAX_STEPS + 1]) = 3 * 2 ^ MAX_STEPS

\* ----------------------------------------------------------------------- C9
\* C9 as claimed: whenever the cache builder decides closed = true, by
\* detection or by hint, level k has |normalized base| * 2^k points.
C9_ClosedDoublingAlways ==
    (fn_pc = "built" /\ fn_closed) =>
        \A k \in 0 .. MAX_STEPS :
            Len(fn_iters[k + 1]) = Len(fn_iters[1]) * 2 ^ k

\* C9 amended: whenever the cache builder decides closed = true and the
\* normalized base has at least two points, level k has |normalized base| *
\* 2^k points; closed by detection the normalized base always has at least
\* two points; a normalized base of fewer than two points (hint only) keeps
\* its length at every level.
C9_ClosedDoubling ==
    (fn_pc = "built" /\ fn_closed) =>
        /\ ~fn_hint => Len(fn_iters[1]) >= 2
        /\ \A k \in 0 .. MAX_STEPS :
              Len(fn_iters[k + 1]) =
                  IF Len(fn_iters[1]) >= 2
                  THEN Len(fn_iters[1]) * 2 ^ k
                  ELSE Len(fn_iters[1])

\* closed by detection with a two-point normalized base, and closed by hint
\* with a three-point one
C9_Witness ==
    /\ fn_pc = "built"
    /\ fn_closed
    /\ \/ ~fn_hint /\ Len(fn_points) = 3 /\ Len(fn_iters[1]) = 2
            /\ Len(fn_iters[MAX_STEPS + 1]) = 2 * 2 ^ MAX_STEPS
       \/ fn_hint /\ Len(fn_iters[1]) = 3
            /\ Len(fn_iters[MAX_STEPS + 1]) = 3 * 2 ^ MAX_STEPS

\* ---------------------------------------------------------------------- C10
\* C10: with closed = true, chaikin_step of the input rotated by one
\* position yields the same set of points as chaikin_step of the input.
C10_ClosedRotationInvariant ==
    (fn_pc \in {"rotated", "built"} /\ fn_hint) =>
        ToSet(fn_step_rot) = ToSet(fn_step)

\* a closed step on three distinct points: the outputs differ as sequences
C10_Witness ==
    /\ fn_pc = "rotated"
    /\ fn_hint
    /\ Len(fn_points) = 3
    /\ Cardinality(ToSet(fn_points)) = 3
    /\ fn_step_rot # fn_step
    /\ Len(fn_step_rot) = 6

\* ---------------------------------------------------------------------- C11
\* C11 as stated: for every base that detection (hint = false) classifies
\* as closed, detecting and normalizing the normalized base again returns
\* it unchanged.
C11_RenormalizeIdempotent ==
    (fn_pc = "renormalized" /\ ~fn_hint /\ fn_closed) =>
        fn_renorm = fn_iters[1]

\* C11, amended: for a base that detection (hint = false) classifies as
\* closed, the second run returns the normalized base unchanged when that
\* base has fewer than three points or its first and last points are
\* farther apart than CLICK_RADIUS; otherwise the second run drops one more
\* point, the last.
C11_RenormalizeIdempotentFarEnds ==
    (fn_pc = "renormalized" /\ ~fn_hint /\ fn_closed) =>
        IF Len(fn_iters[1]) < 3 \/ ~near_ends(fn_iters[1])
        THEN fn_renorm = fn_iters[1]
        ELSE fn_renorm = SubSeq(fn_iters[1], 1, Len(fn_iters[1]) - 1)

\* a closed four-point base whose three-point normalisation has far ends
\* and is returned unchanged by the second run
C11_Witness ==
    /\ fn_pc = "renormalized"
    /\ ~fn_hint
    /\ fn_closed
    /\ Len(fn_points) = 4
    /\ Len(fn_iters[1]) = 3
    /\ ~near_ends(fn_iters[1])
    /\ fn_renorm = fn_iters[1]

\* ---------------------------------------------------------------------- C12
\* a point at quarters of a canvas unit: QuarterPt(10, 30) is (2.5, 7.5)
QuarterPt(qx, qy) == Pt(qx * (FixedOne \div 4), qy * (FixedOne \div 4))

\* the control points of scenario A: (0,0), (10,0), (10,10)
ScenarioA == <<CanvasPt(0, 0), CanvasPt(10, 0), CanvasPt(10, 10)>>

\* C12 as stated: scenario A is open and its level 1 is
\* [(0,0), (7.5,0), (2.5,0), (10,2.5), (10,7.5), (10,10)] in that order.
C12_ScenarioA_AsStated ==
    (fn_pc = "built" /\ ~fn_hint /\ fn_points = ScenarioA) =>
        /\ ~fn_closed
        /\ fn_iters[2] = <<CanvasPt(0, 0), QuarterPt(30, 0), QuarterPt(10, 0),
                           QuarterPt(40, 10), QuarterPt(40, 30),
                           CanvasPt(10, 10)>>

\* C12, amended: scenario A is open and its level 1 is
\* [(0,0), (2.5,0), (7.5,0), (10,2.5), (10,7.5), (10,10)] in that order:
\* of every pair the point nearer the pair's first point comes first.
C12_ScenarioA ==
    (fn_pc = "built" /\ ~fn_hint /\ fn_points = ScenarioA) =>
        /\ ~fn_closed
        /\ fn_iters[2] = <<CanvasPt(0, 0), QuarterPt(10, 0), QuarterPt(30, 0),
                           QuarterPt(40, 10), QuarterPt(40, 30),
                           CanvasPt(10, 10)>>

\* the cache of scenario A is built
C12_Witness ==
    /\ fn_pc = "built"
    /\ ~fn_hint
    /\ fn_points = ScenarioA
    /\ Len(fn_iters) = MAX_STEPS + 1
    /\ Len(fn_iters[2]) = 6

\* ---------------------------------------------------------------------- C13
\* C13: from every reachable state (idle or playing, any anim_step, any
\* number of points) the key C leaves no control points, anim_running
\* false, anim_step 0 and a cache of MAX_STEPS + 1 = 8 empty levels.
C13_Clear ==
    [][on_key_down("C") =>
         /\ control_points' = <<>>
         /\ ~anim_running'
         /\ anim_step' = 0
         /\ Len(cached_iters') = MAX_STEPS + 1
         /\ \A k \in 1 .. MAX_STEPS + 1 : cached_iters'[k] = <<>>]_vars

\* cleared after a press on a point and after the animation ran: the drag
\* index and the elapsed timer are those of the time before the clear
C13_Witness ==
    /\ control_points = <<>>
    /\ dragging # None
    /\ ~anim_running
    /\ anim_step = 0
    /\ anim_elapsed = ANIM_INTERVAL
    /\ last_mouse_pos # CanvasPt(0, 0)
    /\ \A k \in 1 .. MAX_STEPS + 1 : cached_iters[k] = <<>>

\* ---------------------------------------------------------------------- C14
\* C14: the key Return with no control points changes nothing: anim_running,
\* anim_step, the timer, the control points, the cache and the drag state
\* stay as they are and the process does not abort.
C14_ToggleEmptyNoOp ==
    [][(control_points = <<>> /\ on_key_down("Return")) =>
         /\ UNCHANGED <<anim_running, anim_step, anim_elapsed, control_points,
                        cached_iters, dragging>>
         /\ ~panicked']_vars

\* no control points, idle, with a drag index left behind by a clear: the
\* state a Return leaves as it finds it
C14_Witness ==
    /\ control_points = <<>>
    /\ ~anim_running
    /\ dragging = Some(0)
    /\ ~drag_dropped
    /\ ~panicked
    /\ cached_iters[1] = <<>>

\* ---------------------------------------------------------------------- C15
\* C15: the key Return with at least one control point flips anim_running.
\* From idle to playing it sets anim_step to 0 and restarts the timer; from
\* playing to idle it leaves anim_step at its value, and the next on_draw,
\* finding the animation idle, sets anim_step to 0.  In both directions
\* the control points, the cache and the drag state are unchanged.
C15_Toggle ==
    [][/\ (control_points # <<>> /\ on_key_down("Return")) =>
            /\ anim_running' = ~anim_running
            /\ IF anim_running
               THEN anim_step' = anim_step
               ELSE anim_step' = 0 /\ anim_elapsed' = 0
            /\ UNCHANGED <<control_points, cached_iters, dragging>>
       /\ (~anim_running /\ on_draw) => anim_step' = 0]_vars

\* paused on a level above 0: the toggle to idle has left anim_step at its
\* last value and no on_draw has followed yet
C15_Witness ==
    /\ ~anim_running
    /\ anim_step > 0
    /\ Len(control_points) >= 3

\* ---------------------------------------------------------------------- C16
\* C16: on every on_draw, if the animation runs, there are at least three
\* control points and ANIM_INTERVAL has elapsed since the last advance,
\* anim_step becomes (anim_step + 1) mod (MAX_STEPS + 1) and the timer is
\* reset; if the animation runs with at least three points and the
\* interval has not elapsed, anim_step is unchanged; if the animation is
\* idle or there are fewer than three points, anim_step becomes 0.  No
\* on_draw changes anim_running, the control points, the cache or the
\* drag state.
C16_DisplayTick ==
    [][on_draw =>
         /\ IF anim_running /\ Len(control_points) >= 3
            THEN IF anim_elapsed >= ANIM_INTERVAL
                 THEN /\ anim_step' = (anim_step + 1) % (MAX_STEPS + 1)
                      /\ anim_elapsed' = 0
                 ELSE anim_step' = anim_step
            ELSE anim_step' = 0
         /\ UNCHANGED <<anim_running, control_points, cached_iters,
                        dragging>>]_vars

\* an on_draw has just advanced the animation to the last level and reset
\* the timer
C16_Witness ==
    /\ anim_running
    /\ Len(control_points) >= 3
    /\ anim_step = MAX_STEPS
    /\ anim_elapsed = 0

\* ---------------------------------------------------------------------- C17
\* the control point a press at the pointer's position hits, or None
hit_at_pointer ==
    find_point_index_near(control_points, mouse_pos_to_pt(last_mouse_pos),
                          CLICK_RADIUS)

\* C17 as stated: a press of the secondary (right) button begins a drag on
\* the control point it hits within CLICK_RADIUS, and changes nothing when
\* it hits none.
C17_SecondaryPressDrags ==
    [][on_mouse_button_down("Right") =>
         IF hit_at_pointer # None
         THEN dragging' = hit_at_pointer
         ELSE UNCHANGED <<control_points, cached_iters, dragging>>]_vars

\* C17, amended: a press of the secondary (right) button changes nothing,
\* whether or not it hits a control point, and so does its release; a drag
\* on the control point hit within CLICK_RADIUS begins on a press of the
\* primary (left) button.
C17_SecondaryPressNoOp ==
    [][/\ (on_mouse_button_down("Right") \/ on_mouse_button_up("Right")) =>
            UNCHANGED <<control_points, cached_iters, dragging, anim_running,
                        anim_step>>
       /\ (on_mouse_button_down("Left") /\ hit_at_pointer # None) =>
            dragging' = hit_at_pointer]_vars

\* no drag, two control points and the pointer beyond the bottom right
\* corner, within CLICK_RADIUS of the second: a press here hits it
C17_Witness ==
    /\ dragging = None
    /\ Len(control_points) = 2
    /\ last_mouse_pos = CanvasPt(WIDTH + CLICK_RADIUS, HEIGHT + CLICK_RADIUS)
    /\ hit_at_pointer = Some(1)
    /\ ~panicked

\* ---------------------------------------------------------------------- C18
\* the segments that join the consecutive points of path, in order, and
\* after them the segment from the last point to the first when closing
segments_of(path, closing) ==
    [i \in 1 .. (Len(path) - 1 + (IF closing THEN 1 ELSE 0)) |->
        IF i < Len(path) THEN <<path[i], path[i + 1]>>
        ELSE <<path[Len(path)], path[1]>>]

\* the anim_step the timing block of an on_draw called in this state leaves
step_drawn ==
    draw_step(anim_running, Len(control_points), anim_elapsed, anim_step)

\* the frame the claim describes, for an on_draw called in this state: the
\* active curve is the cached level at the current anim_step with three or
\* more control points and the control points otherwise; the context
\* polyline exists with three or more control points; both are closed
\* exactly when the first and last control points are within CLICK_RADIUS
frame_as_claimed ==
    LET n == Len(control_points)
        near == n >= 3 /\ near_ends(control_points)
        level == IF n >= 3 THEN cached_iters[step_drawn + 1]
                 ELSE control_points
    IN  /\ active_lines(step_drawn) =
              IF Len(level) >= 2 THEN segments_of(level, near) ELSE <<>>
        /\ context_lines =
              IF n >= 3 THEN segments_of(control_points, near) ELSE <<>>

\* C18 as stated: on every on_draw, idle or playing, the line segments
\* handed to the renderer are those of the cached level at anim_step (of
\* the control points when there are fewer than three) and of the context
\* polyline, closed exactly when closedness is detected.
C18_RenderEveryFrame ==
    ~panicked =>
        /\ step_drawn < Len(cached_iters)
        /\ frame_as_claimed

\* C18, amended: on every on_draw called while the animation runs, the
\* line segments handed to the renderer are those of the cached level at
\* anim_step (of the control points when there are fewer than three, so
\* two control points yield their single segment) and of the context
\* polyline, closed exactly when closedness is detected; on every on_draw
\* called while the animation is idle no line segment is handed over.
C18_RenderWhilePlaying ==
    ~panicked =>
        /\ step_drawn < Len(cached_iters)
        /\ IF anim_running
           THEN frame_as_claimed
           ELSE active_lines(step_drawn) = <<>> /\ context_lines = <<>>

\* an on_draw has just advanced a running animation of a closed triangle
\* to level 2 and drawn it: the active curve has 8 segments, the closing
\* one included, and the context polyline 3
C18_Witness ==
    /\ anim_running
    /\ Len(control_points) = 3
    /\ near_ends(control_points)
    /\ anim_step = 2
    /\ anim_elapsed = 0
    /\ Len(active_lines(anim_step)) = 8
    /\ Len(context_lines) = 3

\* ---------------------------------------------------------------------- C19
in_canvas(p) ==
    /\ 0 <= p.x /\ p.x <= WIDTH * FixedOne
    /\ 0 <= p.y /\ p.y <= HEIGHT * FixedOne

\* every point of every level lies in the canvas
levels_in_canvas(iters) ==
    \A k \in 1 .. Len(iters) : \A i \in 1 .. Len(iters[k]) :
        in_canvas(iters[k][i])

\* the control point sequences of cache_table whose cache lies in the
\* canvas
canvas_entries ==
    { points \in DOMAIN cache_table : levels_in_canvas(cache_table[points]) }

\* C19: in every reachable state every control point and every point of
\* every level of the cache has x in [0, WIDTH] and y in [0, HEIGHT], with
\* the pointer reported beyond the top left and beyond the bottom right
\* corner of the canvas.
C19_CanvasBounds ==
    /\ \A i \in 1 .. Len(control_points) : in_canvas(control_points[i])
    /\ IF control_points \in DOMAIN cache_table
          /\ cached_iters = cache_table[control_points]
       THEN control_points \in canvas_entries
       ELSE levels_in_canvas(cached_iters)

\* the pointer is beyond the bottom right corner while it drags the third
\* control point, which sits on the corner (WIDTH, HEIGHT), as does the
\* last point of the last level; the first control point is the origin
C19_Witness ==
    /\ ~in_canvas(last_mouse_pos)
    /\ last_mouse_pos.x > WIDTH * FixedOne
    /\ Len(control_points) = 3
    /\ dragging = Some(2)
    /\ control_points[1] = CanvasPt(0, 0)
    /\ control_points[3] = CanvasPt(WIDTH, HEIGHT)
    /\ cached_iters[MAX_STEPS + 1][Len(cached_iters[MAX_STEPS + 1])]
          = CanvasPt(WIDTH, HEIGHT)

\* ---------------------------------------------------------------------- C20
\* the indices (from 1) of the control points within CLICK_RADIUS of the
\* clamped pointer
points_in_reach ==
    { i \in 1 .. Len(control_points) :
        dist2(control_points[i], mouse_pos_to_pt(last_mouse_pos))
            <= CLICK_RADIUS * CLICK_RADIUS }

\* C20: a press of the primary (left) button with at least one control
\* point within squared distance CLICK_RADIUS^2 of the clamped pointer sets
\* the drag state to the lowest index of these points, nearest or not, and
\* leaves the control points and the cache unchanged; with no such point
\* it appends the clamped pointer position at the end of the control
\* points, rebuilds the cache from them and leaves the drag state
\* unchanged.
C20_PrimaryPress ==
    [][on_mouse_button_down("Left") =>
         IF points_in_reach # {}
         THEN /\ \E i \in points_in_reach :
                    /\ \A j \in points_in_reach : i <= j
                    /\ dragging' = Some(i - 1)
              /\ UNCHANGED <<control_points, cached_iters>>
         ELSE /\ control_points' =
                    Append(control_points, mouse_pos_to_pt(last_mouse_pos))
              /\ control_points' \in coherent_entries
              /\ cached_iters' = cache_table[control_points']
              /\ UNCHANGED dragging]_vars

\* a press with the pointer on the second control point and the first
\* within CLICK_RADIUS as well: the drag is on the first, the farther one
C20_Witness ==
    /\ Len(control_points) >= 2
    /\ points_in_reach = {1, 2}
    /\ control_points[2] = mouse_pos_to_pt(last_mouse_pos)
    /\ control_points[1] # control_points[2]
    /\ dragging = Some(0)

\* ---------------------------------------------------------------------- C21
\* C21: an on_mouse_move writes a control point only through a drag index
\* that a press on that same point captured since the last clear; after
\* press on a point, clear, press (append), the move does not relocate the
\* appended point through the index captured before the clear.
C21_NoStaleDragWrites ==
    [][\A position \in MousePositions :
          (on_mouse_move(position) /\ control_points' # control_points) =>
              ~drag_stale]_vars

\* ---------------------------------------------------------------------- C22
\* C22: from the start of the animation on three or more control points,
\* with no toggle, clear or edit and with time and redraws going on,
\* anim_step only ever changes to its successor modulo MAX_STEPS + 1, and
\* from every level 0 .. MAX_STEPS it reaches that successor: the levels
\* are shown in the order 0, 1, ..., 7, 0, ... for ever, none skipped.
C22_PlaybackProgress ==
    /\ [][anim_step' # anim_step =>
            anim_step' = (anim_step + 1) % (MAX_STEPS + 1)]_vars
    /\ \A k \in 0 .. MAX_STEPS :
          (anim_step = k) ~> (anim_step = (k + 1) % (MAX_STEPS + 1))

\* the last level is shown and its interval has elapsed: the next on_draw
\* wraps to level 0
C22_Witness ==
    /\ anim_running
    /\ Len(control_points) >= 3
    /\ anim_step = MAX_STEPS
    /\ anim_elapsed = ANIM_INTERVAL
    /\ to_draw(anim_step) = cached_iters[MAX_STEPS + 1]

\* ---------------------------------------------------------------------- C23
\* C23: in every state reached with presses, releases, toggles, renders,
\* clears and pointer moves outside a drag only, any two control points at
\* different indices are at squared distance > CLICK_RADIUS^2, closedness
\* is not detected and the cache is built with the open variant: level 0
\* is the control points and, with three or more of them, every level
\* keeps the first and the last control point and level 1 has 2n points.
\* A closed cache therefore needs a move during a drag.
C23_ClosingRequiresDrag ==
    LET n == Len(control_points) IN
    /\ \A i, j \in 1 .. n :
          i < j => dist2(control_points[i], control_points[j])
                      > CLICK_RADIUS * CLICK_RADIUS
    /\ ~detect_closed(control_points, FALSE)
    /\ cached_iters[1] = control_points
    /\ n >= 3 =>
          /\ Len(cached_iters[2]) = 2 * n
          /\ \A k \in 1 .. MAX_STEPS + 1 :
                /\ cached_iters[k][1] = control_points[1]
                /\ cached_iters[k][Len(cached_iters[k])] = control_points[n]

\* three control points placed by presses, then a press on the second one
\* that starts a drag which has not moved: the cache is the open one
C23_Witness ==
    /\ Len(control_points) = 3
    /\ dragging = Some(1)
    /\ Len(cached_iters[1]) = 3
    /\ Len(cached_iters[2]) = 6
    /\ cached_iters[MAX_STEPS + 1][1] = control_points[1]
    /\ Len(cached_iters[MAX_STEPS + 1]) = 3 * 2 ^ MAX_STEPS

====
